---- MODULE Spec2Model ----
(***************************************************************************)
(* Model of src/app.py: the MACD comparison dashboard.                     *)
(*                                                                         *)
(* Two specifications are given.                                           *)
(*   Spec      the page script (lines 99-160) run again and again by the   *)
(*             UI framework, with the two cached fetch functions, the      *)
(*             session state and the widgets the user can act on.          *)
(*   StatsSpec the pure functions calculate_stats and create_macd_graph    *)
(*             applied to tables drawn from a bounded set.                 *)
(*                                                                         *)
(* Python values are represented as follows.                               *)
(*   None / a value x      <<>> / <<x>>                                    *)
(*   a dict                a sequence of <<key, value>> pairs in insertion *)
(*                         order                                           *)
(*   a str                 a sequence of one-character strings (names and  *)
(*                         keywords, whose characters matter) or a TLA+    *)
(*                         string (codes, labels)                          *)
(*   a DataFrame           [index |-> dates, columns |-> name :> values]   *)
(*   a float               an exact rational <<numerator, denominator>> in *)
(*                         lowest terms                                    *)
(* Korean labels of the source are written in English:                     *)
(*   "current" = 현재 값, "top10" = 상위 10%, "top25" = 상위 25%,          *)
(*   "mean" = 평균, "bottom25" = 하위 25%, "bottom10" = 하위 10%,          *)
(*   "market_cap" = 시가총액, "date" = 날짜.                               *)
(***************************************************************************)
EXTENDS Integers, Sequences, FiniteSets, TLC

VARIABLES
    pc,                  \* position of the page script
    event,               \* the widget event that triggered the current run
    widgets,             \* widgets on screen after the last finished run
    session_state,       \* st.session_state
    list_cache,          \* cache of fetch_stock_list_from_api
    data_cache,          \* cache of fetch_data_from_api, per stock code
    stock_list_from_api, \* script variable, line 101
    data,                \* script variable, line 131
    trace,               \* this run's cached-function calls and HTTP requests
    ui,                  \* this run's rendered elements, in order
    fn_pc,               \* StatsSpec: position
    fn_data,             \* StatsSpec: argument data
    fn_col,              \* StatsSpec: argument osc_col_name
    fn_stats,            \* StatsSpec: result of calculate_stats
    fn_fig               \* StatsSpec: result of create_macd_graph

page_vars == <<pc, event, widgets, session_state, list_cache, data_cache,
               stock_list_from_api, data, trace, ui>>
fn_vars == <<fn_pc, fn_data, fn_col, fn_stats, fn_fig>>
vars == <<pc, event, widgets, session_state, list_cache, data_cache,
          stock_list_from_api, data, trace, ui,
          fn_pc, fn_data, fn_col, fn_stats, fn_fig>>

----------------------------------------------------------------------------
(* Bounds of the model *)

\* longest column tried on the pure functions
MaxRows == 3
\* column values tried on the pure functions are -MaxAbs .. MaxAbs
MaxAbs == 2
\* seconds that pass in one step of the clock
TickStep == 300

----------------------------------------------------------------------------
(* Python values *)

None == <<>>

Some(x) == <<x>>

Abs(x) == IF x < 0 THEN -x ELSE x

RECURSIVE GCD(_, _)
GCD(a, b) == IF b = 0 THEN a ELSE GCD(b, a % b)

\* the rational n/d, d > 0, in lowest terms
Rat(n, d) ==
    LET g == GCD(Abs(n), d)
    IN  <<n \div g, d \div g>>

RatLE(a, b) == a[1] * b[2] <= b[1] * a[2]

RECURSIVE Sum(_)
Sum(s) == IF s = <<>> THEN 0 ELSE s[1] + Sum(Tail(s))

----------------------------------------------------------------------------
(* DataFrame and Series operations used by the source *)

OSC_ACC == "MACD_Oscillator_Accurate"

OSC_INACC == "MACD_Oscillator_Inaccurate"

\* DataFrame.empty: any axis of length 0
Empty(df) == Len(df.index) = 0 \/ DOMAIN df.columns = {}

\* a slip: the first row instead of the last
ILocFirst(col) == col[1]

\* Series.iloc[-1]
ILocLast(col) == col[Len(col)]

\* a slip: interpolation over the rows as they come, not over the sorted values
QuantileUnsorted(col, qn, qd) ==
    LET h == (Len(col) - 1) * qn
        lo == (h \div qd) + 1
        hi == IF lo < Len(col) THEN lo + 1 ELSE lo
        fr == h % qd
    IN  Rat(col[lo] * qd + fr * (col[hi] - col[lo]), qd)

\* Series.quantile(qn/qd), linear interpolation between the order statistics
Quantile(col, qn, qd) ==
    LET s == SortSeq(col, LAMBDA a, b : a < b)
        h == (Len(s) - 1) * qn
        lo == (h \div qd) + 1
        hi == IF lo < Len(s) THEN lo + 1 ELSE lo
        fr == h % qd
    IN  Rat(s[lo] * qd + fr * (s[hi] - s[lo]), qd)

\* Series.mean()
Mean(col) == Rat(Sum(col), Len(col))

\* a slip: a table without rows or without the column gets six zero statistics
calculate_stats_zeros(df, osc_col_name) ==
    IF Empty(df) \/ osc_col_name \notin DOMAIN df.columns
    THEN [i \in 1..6 |->
            <<(<<"current", "top10", "top25", "mean", "bottom25", "bottom10">>)[i],
              Rat(0, 1)>>]
    ELSE LET col == df.columns[osc_col_name]
         IN  << <<"current", Rat(ILocLast(col), 1)>>,
                <<"top10", Quantile(col, 9, 10)>>,
                <<"top25", Quantile(col, 3, 4)>>,
                <<"mean", Mean(col)>>,
                <<"bottom25", Quantile(col, 1, 4)>>,
                <<"bottom10", Quantile(col, 1, 10)>> >>

calculate_stats(df, osc_col_name) ==
    IF Empty(df) \/ osc_col_name \notin DOMAIN df.columns
    THEN <<>>
    ELSE LET col == df.columns[osc_col_name]
         IN  << <<"current", Rat(ILocLast(col), 1)>>,
                <<"top10", Quantile(col, 9, 10)>>,
                <<"top25", Quantile(col, 3, 4)>>,
                <<"mean", Mean(col)>>,
                <<"bottom25", Quantile(col, 1, 4)>>,
                <<"bottom10", Quantile(col, 1, 10)>> >>

\* the line ax2.axhline draws for one statistic, lines 85-88
StatLine(key, value) ==
    [y |-> value,
     color |-> IF key = "mean" THEN "purple"
               ELSE IF key \in {"top10", "bottom10"} THEN "green" ELSE "blue",
     linestyle |-> IF key = "mean" THEN "-" ELSE "--",
     linewidth |-> IF key = "mean" THEN "1.5" ELSE "1",
     label |-> key]

\* a slip: the loop without the continue of line 84
RECURSIVE StatLinesAll(_)
StatLinesAll(stats) ==
    IF stats = <<>> THEN <<>>
    ELSE <<StatLine(stats[1][1], stats[1][2])>> \o StatLinesAll(Tail(stats))

\* the loop of lines 82-88 over stats.items()
RECURSIVE StatLines(_)
StatLines(stats) ==
    IF stats = <<>> THEN <<>>
    ELSE IF stats[1][1] = "current" THEN StatLines(Tail(stats))
    ELSE <<StatLine(stats[1][1], stats[1][2])>> \o StatLines(Tail(stats))

\* the zero line of line 80
ZeroLine ==
    [y |-> Rat(0, 1), color |-> "gray", linestyle |-> "--", linewidth |-> "0.7",
     label |-> ""]

\* data['시가총액'] and data[osc_col_name] raise KeyError on a missing column
create_macd_graph(df, stats, stock_code, stock_name, osc_col_name, title_prefix) ==
    IF "market_cap" \notin DOMAIN df.columns \/ osc_col_name \notin DOMAIN df.columns
    THEN [raised |-> "KeyError", plots |-> <<>>, vlines |-> <<>>, hlines |-> <<>>,
          title |-> <<>>]
    ELSE [raised |-> "",
          plots |-> << <<"ax1", "market_cap">>, <<"ax2", osc_col_name>> >>,
          vlines |-> df.index,
          hlines |-> <<ZeroLine>> \o StatLines(stats),
          title |-> <<title_prefix, stock_name, stock_code>>]

----------------------------------------------------------------------------
(* The remote API, as far as the page can tell its answers apart *)

\* time to live of the two caches, in seconds
TTL_STOCK_LIST == 3600

TTL_STOCK_DATA == 600

Codes == {"c1", "c2"}

Stock(code, name) == [code |-> code, name |-> name]

StockList1 == <<Stock("c1", <<"a", "b">>), Stock("c2", <<"a", "b">>)>>

StockList2 == <<Stock("c2", <<"a", "b", "c">>), Stock("c1", <<"a", "b">>)>>

\* bodies GET /os/stocks can answer with; a failed request answers with no body
StockListBodies == {<<>>, StockList1, StockList2}

Record(date, cap, acc, inacc) ==
    [date |-> date, market_cap |-> cap, MACD_Oscillator_Accurate |-> acc,
     MACD_Oscillator_Inaccurate |-> inacc]

SeriesBody1 == <<Record(1, 10, 2, -1), Record(2, 11, -2, 0), Record(3, 12, 1, 2)>>

SeriesBody2 ==
    <<[date |-> 1, market_cap |-> 10, MACD_Oscillator_Accurate |-> 0],
      [date |-> 2, market_cap |-> 9, MACD_Oscillator_Accurate |-> -1]>>

\* bodies GET /os/stock/{code} can answer with: no record, or the stock's series
SeriesBodies(code) == {<<>>, IF code = "c1" THEN SeriesBody1 ELSE SeriesBody2}

Keywords == {<<>>, <<"a">>, <<"a", "b">>, <<"c">>, <<"a", "b", "c">>, <<"z">>}

----------------------------------------------------------------------------
(* Helpers of the page script *)

\* a slip: "is not None" where the truth of the value is meant
TruthyNotNone(o) == o # None

\* Python truth of an optional list or dict
Truthy(o) == o # None /\ o[1] # <<>>

\* Python truth of an optional str
TruthyStr(o) == o # None /\ o[1] # ""

\* keyword in name, for two str
Contains(keyword, name) ==
    \E i \in 1..(Len(name) - Len(keyword) + 1) :
        SubSeq(name, i, i + Len(keyword) - 1) = keyword

\* d[key] = value on a dict
DictPut(d, key, value) ==
    IF \E i \in 1..Len(d) : d[i][1] = key
    THEN [i \in 1..Len(d) |-> IF d[i][1] = key THEN <<key, value>> ELSE d[i]]
    ELSE Append(d, <<key, value>>)

\* the dict comprehension of line 34
RECURSIVE SimilarStocks(_, _, _)
SimilarStocks(keyword, stock_list, acc) ==
    IF stock_list = <<>> THEN acc
    ELSE SimilarStocks(keyword, Tail(stock_list),
            IF Contains(keyword, stock_list[1].name)
            THEN DictPut(acc, stock_list[1].code, stock_list[1].name)
            ELSE acc)

\* a slip: the last stock named keyword instead of the first
LastExact(keyword, stock_list) ==
    IF \E i \in 1..Len(stock_list) : stock_list[i].name = keyword
    THEN CHOOSE i \in 1..Len(stock_list) :
            /\ stock_list[i].name = keyword
            /\ \A j \in (i + 1)..Len(stock_list) : stock_list[j].name # keyword
    ELSE 0

\* index of the first stock named keyword, 0 if none: the loop of lines 32-33
FirstExact(keyword, stock_list) ==
    IF \E i \in 1..Len(stock_list) : stock_list[i].name = keyword
    THEN CHOOSE i \in 1..Len(stock_list) :
            /\ stock_list[i].name = keyword
            /\ \A j \in 1..(i - 1) : stock_list[j].name # keyword
    ELSE 0

\* returns <<exact_match, similar_stocks>>
search_stock_code(keyword, stock_list) ==
    IF ~Truthy(stock_list) THEN <<None, None>>
    ELSE LET i == FirstExact(keyword, stock_list[1])
             similar_stocks == SimilarStocks(keyword, stock_list[1], <<>>)
         IN  IF i # 0 THEN <<Some(<<stock_list[1][i].code>>), None>>
             ELSE <<None, IF similar_stocks # <<>> THEN Some(similar_stocks) ELSE None>>

\* pd.DataFrame(response.json()), to_datetime and set_index of lines 44-46;
\* raised = "KeyError" when the body has no date column
DataFrameOf(body) ==
    LET columns == UNION {DOMAIN body[i] : i \in 1..Len(body)}
    IN  IF "date" \notin columns
        THEN [raised |-> "KeyError", df |-> None]
        ELSE [raised |-> "",
              df |-> Some([index |-> [i \in 1..Len(body) |-> body[i].date],
                           columns |-> [c \in columns \ {"date"} |->
                                          [i \in 1..Len(body) |-> body[i][c]]]])]

\* f"{x:,.5f}": the value in units of 10^-5, rounded to the nearest
Format5(x) == (2 * x[1] * 100000 + x[2]) \div (2 * x[2])

\* st.session_state.key = value
SetState(s, key, value) ==
    [k \in DOMAIN s \cup {key} |-> IF k = key THEN value ELSE s[k]]

\* 'key' in st.session_state and st.session_state.key
IsSet(s, key) ==
    /\ key \in DOMAIN s
    /\ IF key = "target_code" THEN TruthyStr(s[key]) ELSE Truthy(s[key])

----------------------------------------------------------------------------
(* The cache decorator st.cache_data(ttl=...) *)

NoEntry == <<>>

Entry(value, age) == <<[value |-> value, age |-> age]>>

\* a slip: an entry as old as the time to live still answers
CacheValidInclusive(entry, ttl) == entry # NoEntry /\ entry[1].age <= ttl

\* an entry answers a call while it is younger than the time to live
CacheValid(entry, ttl) == entry # NoEntry /\ entry[1].age < ttl

\* a slip: only a successful result is stored
MemoizeSuccess(value) == IF value = None THEN NoEntry ELSE Entry(value, 0)

\* the entry a finished call leaves: any returned value is stored, None too
Memoize(value) == Entry(value, 0)

\* the entry after one step of the clock
Aged(entry, ttl) ==
    IF entry = NoEntry THEN NoEntry
    ELSE Entry(entry[1].value,
               IF entry[1].age + TickStep >= ttl THEN ttl ELSE entry[1].age + TickStep)

----------------------------------------------------------------------------
(* Logs of a run *)

Call(fn, arg, hit) == [op |-> "call", fn |-> fn, arg |-> arg, flag |-> hit]

Get(fn, arg, ok) == [op |-> "GET", fn |-> fn, arg |-> arg, flag |-> ok]

El(kind, arg) == [kind |-> kind, arg |-> arg]

Shown(kind) == \E i \in 1..Len(ui) : ui[i].kind = kind

NoEvent == [type |-> "none", keyword |-> <<>>, button |-> <<>>]

Submit(keyword) == [type |-> "submit", keyword |-> keyword, button |-> <<>>]

Click(button) == [type |-> "click", keyword |-> <<>>, button |-> button]

----------------------------------------------------------------------------
(* The page script, lines 99-160 *)

\* no figure has been made
NoFigure ==
    [raised |-> "", plots |-> <<>>, vlines |-> <<>>, hlines |-> <<>>, title |-> <<>>]

Init ==
    /\ pc = "idle"
    /\ event = NoEvent
    /\ widgets = [form |-> FALSE, buttons |-> <<>>]
    /\ session_state = <<>>
    /\ list_cache = NoEntry
    /\ data_cache = [c \in Codes |-> NoEntry]
    /\ stock_list_from_api = None
    /\ data = None
    /\ trace = <<>>
    /\ ui = <<>>
    /\ fn_pc = "off"
    /\ fn_data = [index |-> <<>>, columns |-> <<>>]
    /\ fn_col = OSC_ACC
    /\ fn_stats = <<>>
    /\ fn_fig = NoFigure

\* the script starts from its first line: st.title, line 99
Begin(e) ==
    /\ pc' = "fetch_list"
    /\ event' = e
    /\ stock_list_from_api' = None
    /\ data' = None
    /\ trace' = <<>>
    /\ ui' = <<El("title", "")>>

\* the framework runs the script on page load or on a plain rerun
RunPlain ==
    /\ pc = "idle"
    /\ Begin(NoEvent)
    /\ UNCHANGED <<widgets, session_state, list_cache, data_cache, fn_vars>>

\* the user submits the search form, which the last run has shown
RunSubmit ==
    /\ pc = "idle"
    /\ widgets.form
    /\ \E keyword \in Keywords : Begin(Submit(keyword))
    /\ UNCHANGED <<widgets, session_state, list_cache, data_cache, fn_vars>>

\* the user clicks one of the candidate buttons the last run has shown
RunClick ==
    /\ pc = "idle"
    /\ \E i \in 1..Len(widgets.buttons) : Begin(Click(widgets.buttons[i]))
    /\ UNCHANGED <<widgets, session_state, list_cache, data_cache, fn_vars>>

\* time passes between two runs
Tick ==
    /\ pc = "idle"
    /\ list_cache' = Aged(list_cache, TTL_STOCK_LIST)
    /\ data_cache' = [c \in Codes |-> Aged(data_cache[c], TTL_STOCK_DATA)]
    /\ UNCHANGED <<pc, event, widgets, session_state, stock_list_from_api, data,
                   trace, ui, fn_vars>>

\* line 101 and the branch of line 103, on a cache hit: the memoized value
\* is returned and the elements the function emitted are replayed
FetchStockListHit ==
    /\ pc = "fetch_list"
    /\ CacheValid(list_cache, TTL_STOCK_LIST)
    /\ LET value == list_cache[1].value
       IN  /\ stock_list_from_api' = value
           /\ trace' = Append(trace, Call("fetch_stock_list_from_api", "", TRUE))
           /\ ui' = IF value = None THEN Append(ui, El("error", "stock_list_api"))
                    ELSE ui
           /\ pc' = IF Truthy(value) THEN "form" ELSE "else"
    /\ UNCHANGED <<event, widgets, session_state, list_cache, data_cache, data,
                   fn_vars>>

\* the body of fetch_stock_list_from_api for a request that answers ok with
\* body, or fails (lines 21-27)
fetch_stock_list_from_api(ok, body) ==
    IF ok THEN [value |-> Some(body), errors |-> <<>>]
    ELSE [value |-> None, errors |-> <<El("error", "stock_list_api")>>]

\* line 101 and the branch of line 103, on a cache miss
FetchStockListMiss ==
    /\ pc = "fetch_list"
    /\ ~CacheValid(list_cache, TTL_STOCK_LIST)
    /\ \E ok \in BOOLEAN, body \in StockListBodies :
        LET r == fetch_stock_list_from_api(ok, body)
        IN  /\ stock_list_from_api' = r.value
            /\ list_cache' = Memoize(r.value)
            /\ trace' = trace \o <<Call("fetch_stock_list_from_api", "", FALSE),
                                   Get("/os/stocks", "", ok)>>
            /\ ui' = ui \o r.errors
            /\ pc' = IF Truthy(r.value) THEN "form" ELSE "else"
    /\ UNCHANGED <<event, widgets, session_state, data_cache, data, fn_vars>>

\* a slip: line 114 left out, the target survives a search with candidates
ResolveKeepTarget(s, found) ==
    IF found[1] # None
    THEN SetState(SetState(s, "target_code", Some(found[1][1][1])),
                  "similar_stocks", None)
    ELSE IF found[2] # None
    THEN SetState(s, "similar_stocks", found[2])
    ELSE SetState(SetState(s, "target_code", None), "similar_stocks", None)

\* lines 110-119
Resolve(s, found) ==
    IF found[1] # None
    THEN SetState(SetState(s, "target_code", Some(found[1][1][1])),
                  "similar_stocks", None)
    ELSE IF found[2] # None
    THEN SetState(SetState(s, "target_code", None), "similar_stocks", found[2])
    ELSE SetState(SetState(s, "target_code", None), "similar_stocks", None)

\* lines 104-119: the form and the handling of a submit
Form ==
    /\ pc = "form"
    /\ IF event.type = "submit" /\ event.keyword # <<>>
       THEN LET found == search_stock_code(event.keyword, stock_list_from_api)
            IN  /\ session_state' = Resolve(session_state, found)
                /\ ui' = IF found[1] = None /\ found[2] = None
                         THEN ui \o <<El("form", ""), El("error", "not_found")>>
                         ELSE Append(ui, El("form", ""))
       ELSE /\ session_state' = session_state
            /\ ui' = Append(ui, El("form", ""))
    /\ pc' = "buttons"
    /\ UNCHANGED <<event, widgets, list_cache, data_cache, stock_list_from_api,
                   data, trace, fn_vars>>

\* position in the dict of the button the event clicked, 0 if none
Clicked(similar_stocks) ==
    IF event.type = "click"
       /\ \E i \in 1..Len(similar_stocks) : similar_stocks[i] = event.button
    THEN CHOOSE i \in 1..Len(similar_stocks) : similar_stocks[i] = event.button
    ELSE 0

ButtonsUpTo(similar_stocks, n) == [i \in 1..n |-> El("button", similar_stocks[i])]

\* lines 121-127: the candidate buttons; a click ends the run in st.rerun()
Buttons ==
    /\ pc = "buttons"
    /\ IF IsSet(session_state, "similar_stocks")
       THEN LET similar_stocks == session_state["similar_stocks"][1]
                k == Clicked(similar_stocks)
            IN  IF k # 0
                THEN /\ session_state' =
                            SetState(SetState(session_state, "target_code",
                                              Some(similar_stocks[k][1])),
                                     "similar_stocks", None)
                     /\ ui' = ui \o <<El("warning", "")>>
                                 \o ButtonsUpTo(similar_stocks, k)
                     /\ pc' = "rerun"
                ELSE /\ session_state' = session_state
                     /\ ui' = ui \o <<El("warning", "")>>
                                 \o ButtonsUpTo(similar_stocks, Len(similar_stocks))
                     /\ pc' = "target"
       ELSE /\ session_state' = session_state
            /\ ui' = ui
            /\ pc' = "target"
    /\ UNCHANGED <<event, widgets, list_cache, data_cache, stock_list_from_api,
                   data, trace, fn_vars>>

\* st.rerun(): the run is abandoned and the script starts again
Rerun ==
    /\ pc = "rerun"
    /\ Begin(NoEvent)
    /\ UNCHANGED <<widgets, session_state, list_cache, data_cache, fn_vars>>

\* line 129 is false: nothing more is rendered
NoTarget ==
    /\ pc = "target"
    /\ ~IsSet(session_state, "target_code")
    /\ pc' = "done"
    /\ UNCHANGED <<event, widgets, session_state, list_cache, data_cache,
                   stock_list_from_api, data, trace, ui, fn_vars>>

\* a slip: the failure is swallowed without a message
fetch_data_from_api_silent(stock_code, ok, body) ==
    IF ok
    THEN LET r == DataFrameOf(body)
         IN  [raised |-> r.raised, value |-> r.df, errors |-> <<>>]
    ELSE [raised |-> "", value |-> None, errors |-> <<>>]

\* the body of fetch_data_from_api for a request that answers ok with body,
\* or fails (lines 40-50); a KeyError of line 45 is not caught
fetch_data_from_api(stock_code, ok, body) ==
    IF ok
    THEN LET r == DataFrameOf(body)
         IN  [raised |-> r.raised, value |-> r.df, errors |-> <<>>]
    ELSE [raised |-> "", value |-> None,
          errors |-> <<El("error", "stock_data_api")>>]

\* lines 129-131, on a cache hit
FetchDataHit ==
    /\ pc = "target"
    /\ IsSet(session_state, "target_code")
    /\ LET target_code == session_state["target_code"][1]
       IN  /\ CacheValid(data_cache[target_code], TTL_STOCK_DATA)
           /\ LET value == data_cache[target_code][1].value
              IN  /\ data' = value
                  /\ ui' = IF value = None
                           THEN Append(ui, El("error", "stock_data_api"))
                           ELSE ui
           /\ trace' = Append(trace, Call("fetch_data_from_api", target_code, TRUE))
    /\ pc' = "render"
    /\ UNCHANGED <<event, widgets, session_state, list_cache, data_cache,
                   stock_list_from_api, fn_vars>>

\* lines 129-131, on a cache miss; an exception ends the run and stores nothing
FetchDataMiss ==
    /\ pc = "target"
    /\ IsSet(session_state, "target_code")
    /\ LET target_code == session_state["target_code"][1]
       IN  /\ ~CacheValid(data_cache[target_code], TTL_STOCK_DATA)
           /\ \E ok \in BOOLEAN, body \in SeriesBodies(target_code) :
                LET r == fetch_data_from_api(target_code, ok, body)
                IN  /\ trace' = trace \o <<Call("fetch_data_from_api", target_code, FALSE),
                                           Get("/os/stock/", target_code, ok)>>
                    /\ IF r.raised # ""
                       THEN /\ data' = None
                            /\ data_cache' = data_cache
                            /\ ui' = Append(ui, El("exception", r.raised))
                            /\ pc' = "done"
                       ELSE /\ data' = r.value
                            /\ data_cache' = [data_cache EXCEPT ![target_code] =
                                                 Memoize(r.value)]
                            /\ ui' = ui \o r.errors
                            /\ pc' = "render"
    /\ UNCHANGED <<event, widgets, session_state, list_cache, stock_list_from_api,
                   fn_vars>>

\* line 134: next((s['name'] for s in stock_list if s['code'] == code), code)
StockName(stock_list, target_code) ==
    IF \E i \in 1..Len(stock_list) : stock_list[i].code = target_code
    THEN LET i == CHOOSE i \in 1..Len(stock_list) :
                    /\ stock_list[i].code = target_code
                    /\ \A j \in 1..(i - 1) : stock_list[j].code # target_code
         IN  <<stock_list[i].name>>
    ELSE <<target_code>>

\* lines 142-143: the table of the statistics, values formatted
StatsTable(stats) == [i \in 1..Len(stats) |-> <<stats[i][1], Format5(stats[i][2])>>]

\* one column of the page, lines 139-147 and 150-158: the elements it renders,
\* ending with the exception if the chart raises
Column(df, target_code, stock_name, osc_col_name, title_prefix) ==
    IF osc_col_name \in DOMAIN df.columns
    THEN LET stats == calculate_stats(df, osc_col_name)
             fig == create_macd_graph(df, stats, target_code, stock_name,
                                      osc_col_name, title_prefix)
         IN  IF fig.raised # ""
             THEN <<El("header", title_prefix), El("table", StatsTable(stats)),
                    El("exception", fig.raised)>>
             ELSE <<El("header", title_prefix), El("table", StatsTable(stats)),
                    El("pyplot", fig)>>
    ELSE <<El("header", title_prefix)>>

Raised(elements) == \E i \in 1..Len(elements) : elements[i].kind = "exception"

\* lines 133-158
Render ==
    /\ pc = "render"
    /\ IF data # None /\ ~Empty(data[1])
       THEN LET target_code == session_state["target_code"][1]
                stock_name == StockName(stock_list_from_api[1], target_code)
                col1 == Column(data[1], target_code, stock_name, OSC_ACC, "accurate")
                col2 == Column(data[1], target_code, stock_name, OSC_INACC,
                               "inaccurate")
            IN  ui' = IF Raised(col1) THEN ui \o col1 ELSE ui \o col1 \o col2
       ELSE ui' = ui
    /\ pc' = "done"
    /\ UNCHANGED <<event, widgets, session_state, list_cache, data_cache,
                   stock_list_from_api, data, trace, fn_vars>>

\* lines 159-160
Else ==
    /\ pc = "else"
    /\ ui' = Append(ui, El("error", "no_connection"))
    /\ pc' = "done"
    /\ UNCHANGED <<event, widgets, session_state, list_cache, data_cache,
                   stock_list_from_api, data, trace, fn_vars>>

ButtonsShown == SelectSeq(ui, LAMBDA e : e.kind = "button")

\* the run is over: what it rendered is on screen, its variables are gone
EndRun ==
    /\ pc = "done"
    /\ widgets' = [form |-> Shown("form"),
                   buttons |-> [i \in 1..Len(ButtonsShown) |-> ButtonsShown[i].arg]]
    /\ pc' = "idle"
    /\ event' = NoEvent
    /\ stock_list_from_api' = None
    /\ data' = None
    /\ trace' = <<>>
    /\ ui' = <<>>
    /\ UNCHANGED <<session_state, list_cache, data_cache, fn_vars>>

Next ==
    \/ RunPlain
    \/ RunSubmit
    \/ RunClick
    \/ Tick
    \/ FetchStockListHit
    \/ FetchStockListMiss
    \/ Form
    \/ Buttons
    \/ Rerun
    \/ NoTarget
    \/ FetchDataHit
    \/ FetchDataMiss
    \/ Render
    \/ Else
    \/ EndRun

Spec == Init /\ [][Next]_vars

----------------------------------------------------------------------------
(* The pure functions on bounded tables *)

Values == (0 - MaxAbs)..MaxAbs

Columns == UNION {[1..n -> Values] : n \in 0..MaxRows}

Reverse(s) == [i \in 1..Len(s) |-> s[Len(s) + 1 - i]]

\* a table of Len(vals) rows with the columns named in cols
Table(vals, cols) ==
    [index |-> [i \in 1..Len(vals) |-> i],
     columns |-> [c \in cols |->
                    IF c = OSC_ACC THEN vals
                    ELSE IF c = OSC_INACC THEN Reverse(vals)
                    ELSE [i \in 1..Len(vals) |-> 10 + i]]]

Tables == {Table(vals, cols) : vals \in Columns,
                               cols \in SUBSET {"market_cap", OSC_ACC, OSC_INACC}}

StatsInit ==
    /\ pc = "off"
    /\ event = NoEvent
    /\ widgets = [form |-> FALSE, buttons |-> <<>>]
    /\ session_state = <<>>
    /\ list_cache = NoEntry
    /\ data_cache = [c \in Codes |-> NoEntry]
    /\ stock_list_from_api = None
    /\ data = None
    /\ trace = <<>>
    /\ ui = <<>>
    /\ fn_pc = "args"
    /\ fn_data \in Tables
    /\ fn_col \in {OSC_ACC, OSC_INACC}
    /\ fn_stats = <<>>
    /\ fn_fig = NoFigure

CallCalculateStats ==
    /\ fn_pc = "args"
    /\ fn_stats' = calculate_stats(fn_data, fn_col)
    /\ fn_pc' = "stats"
    /\ UNCHANGED <<fn_data, fn_col, fn_fig, page_vars>>

CallCreateMacdGraph ==
    /\ fn_pc = "stats"
    /\ fn_fig' = create_macd_graph(fn_data, fn_stats, "c1", <<"a">>, fn_col, "accurate")
    /\ fn_pc' = "drawn"
    /\ UNCHANGED <<fn_data, fn_col, fn_stats, page_vars>>

StatsNext ==
    \/ CallCalculateStats
    \/ CallCreateMacdGraph

StatsSpec == StatsInit /\ [][StatsNext]_vars

----------------------------------------------------------------------------
(* Properties of the pure functions, checked under StatsSpec *)

StatsDone == fn_pc \in {"stats", "drawn"}

\* the table is not empty and has the oscillator column
HasColumn == ~Empty(fn_data) /\ fn_col \in DOMAIN fn_data.columns

Keys(stats) == {stats[i][1] : i \in 1..Len(stats)}

\* stats[key], for a key of the mapping
StatOf(stats, key) == stats[CHOOSE i \in 1..Len(stats) : stats[i][1] = key][2]

\* C3: for a non-empty table that has the oscillator column, calculate_stats
\* returns exactly six entries (current, top10, top25, bottom25, bottom10,
\* mean), and the current value is the column's value in the last row of the
\* table.
C3_SixEntriesCurrentIsLastRow ==
    (StatsDone /\ HasColumn) =>
        /\ Len(fn_stats) = 6
        /\ Keys(fn_stats) = {"current", "top10", "top25", "mean", "bottom25", "bottom10"}
        /\ StatOf(fn_stats, "current")
             = <<fn_data.columns[fn_col][Len(fn_data.index)], 1>>

\* a table whose last row differs from its first row and from the rows between
C3_Witness ==
    /\ fn_pc = "stats"
    /\ HasColumn
    /\ Len(fn_data.index) = 3
    /\ fn_data.columns[fn_col][3] # fn_data.columns[fn_col][1]
    /\ fn_data.columns[fn_col][3] # fn_data.columns[fn_col][2]
    /\ Len(fn_stats) = 6

\* sum over the rows of (value - m), times the denominator of m
RECURSIVE Deviations(_, _)
Deviations(col, m) ==
    IF col = <<>> THEN 0
    ELSE (col[1] * m[2] - m[1]) + Deviations(Tail(col), m)

\* C4: for a non-empty numeric column the quantiles are ordered
\* top10 >= top25 >= bottom25 >= bottom10, and the mean is the arithmetic mean
\* of the column: the deviations of the values from it sum to zero.
C4_QuantilesOrderedMeanIsArithmetic ==
    (StatsDone /\ HasColumn) =>
        /\ RatLE(StatOf(fn_stats, "top25"), StatOf(fn_stats, "top10"))
        /\ RatLE(StatOf(fn_stats, "bottom25"), StatOf(fn_stats, "top25"))
        /\ RatLE(StatOf(fn_stats, "bottom10"), StatOf(fn_stats, "bottom25"))
        /\ StatOf(fn_stats, "mean")[2] > 0
        /\ Deviations(fn_data.columns[fn_col], StatOf(fn_stats, "mean")) = 0

\* an unsorted column with four different quantiles and a mean that is no integer
C4_Witness ==
    /\ fn_pc = "stats"
    /\ HasColumn
    /\ fn_data.columns[fn_col] = <<2, -2, 1>>
    /\ Cardinality({StatOf(fn_stats, k) :
                      k \in {"top10", "top25", "bottom25", "bottom10"}}) = 4
    /\ StatOf(fn_stats, "mean") = <<1, 3>>

StatisticLines(fig) == SelectSeq(fig.hlines, LAMBDA l : l.label # "")

\* C5: calculate_stats returns the empty mapping when the table has no rows or
\* the oscillator column is no column of it, and a chart made from an empty
\* mapping has no statistic reference line.
C5_EmptyInputEmptyResult ==
    /\ (StatsDone /\ (Len(fn_data.index) = 0 \/ fn_col \notin DOMAIN fn_data.columns))
          => fn_stats = <<>>
    /\ (fn_pc = "drawn" /\ (Len(fn_data.index) = 0 \/ fn_col \notin DOMAIN fn_data.columns))
          => StatisticLines(fn_fig) = <<>>

\* a chart drawn for a table that has the columns and no rows
C5_Witness ==
    /\ fn_pc = "drawn"
    /\ Len(fn_data.index) = 0
    /\ DOMAIN fn_data.columns = {"market_cap", OSC_ACC, OSC_INACC}
    /\ fn_stats = <<>>
    /\ fn_fig.raised = ""
    /\ Len(fn_fig.hlines) = 1

\* the chart was drawn from a non-empty mapping
Drawn == fn_pc = "drawn" /\ fn_fig.raised = "" /\ fn_stats # <<>>

\* C6 as stated: every one of the six entries of a non-empty stats mapping has
\* a horizontal line at its value.
C6_LineAtEverySixEntries ==
    Drawn =>
        \A i \in 1..Len(fn_stats) :
            \E j \in 1..Len(fn_fig.hlines) : fn_fig.hlines[j].y = fn_stats[i][2]

\* C6 amended: every entry of a non-empty stats mapping other than the current
\* value has exactly one horizontal line, labelled with its key, at its value;
\* the current value has none, and the only other line is the zero line.
C6_LineAtEveryEntryButCurrent ==
    Drawn =>
        /\ \A i \in 1..Len(fn_stats) :
              LET at == {j \in 1..Len(fn_fig.hlines) :
                            fn_fig.hlines[j].label = fn_stats[i][1]}
              IN  IF fn_stats[i][1] = "current" THEN at = {}
                  ELSE /\ Cardinality(at) = 1
                       /\ \A j \in at : fn_fig.hlines[j].y = fn_stats[i][2]
        /\ Len(StatisticLines(fn_fig)) = Len(fn_stats) - 1
        /\ Len(fn_fig.hlines) = Len(fn_stats)

\* a chart of six statistics whose current value is at no line
C6_Witness ==
    /\ Drawn
    /\ Len(fn_stats) = 6
    /\ \A j \in 1..Len(fn_fig.hlines) :
          fn_fig.hlines[j].y # StatOf(fn_stats, "current")

----------------------------------------------------------------------------
(* Properties of the page script, checked under Spec *)

LIST_FN == "fetch_stock_list_from_api"

DATA_FN == "fetch_data_from_api"

LIST_URL == "/os/stocks"

DATA_URL == "/os/stock/"

\* positions of the trace with the HTTP requests to an endpoint
Requests(url) == {i \in 1..Len(trace) : trace[i].op = "GET" /\ trace[i].fn = url}

\* positions of the trace with the calls of a cached function
Calls(fn) == {i \in 1..Len(trace) : trace[i].op = "call" /\ trace[i].fn = fn}

Failed(url) == \E i \in Requests(url) : ~trace[i].flag

ErrorShown(what) == \E i \in 1..Len(ui) : ui[i].kind = "error" /\ ui[i].arg = what

TargetCode == session_state["target_code"][1]

\* C1: a failed request to either endpoint raises nothing, shows an error
\* message and makes the fetch return None; after a failed stock-list request
\* the run shows no form and calls nothing for a stock; after a failed
\* per-stock request the run renders no table and no chart, the message being
\* the last element it renders.
C1_FailedFetchRendersNothing ==
    /\ Failed(LIST_URL) =>
          /\ stock_list_from_api = None
          /\ ErrorShown("stock_list_api")
          /\ ~Shown("exception") /\ ~Shown("form")
          /\ ~Shown("table") /\ ~Shown("pyplot")
          /\ Calls(DATA_FN) = {} /\ Requests(DATA_URL) = {}
          /\ pc \in {"else", "done"}
    /\ Failed(DATA_URL) =>
          /\ data = None
          /\ ErrorShown("stock_data_api")
          /\ ~Shown("exception")
          /\ ~Shown("table") /\ ~Shown("pyplot")
          /\ ui[Len(ui)].kind = "error" /\ ui[Len(ui)].arg = "stock_data_api"
          /\ pc \in {"render", "done"}

\* a finished run whose stock list was fetched and whose per-stock request failed
C1_Witness ==
    /\ pc = "done"
    /\ Truthy(stock_list_from_api)
    /\ Failed(DATA_URL)
    /\ Shown("form")
    /\ data = None

\* C2: a call of fetch_stock_list_from_api that finds an entry younger than
\* 3600 s returns its value and issues no request; a call of
\* fetch_data_from_api(code) that finds an entry of that code younger than
\* 600 s returns its value and issues no request; otherwise the call issues one
\* request and stores a new entry; a call changes no entry of another code or
\* of the other function.
C2_Memoized ==
    [][/\ pc = "fetch_list" =>
            IF list_cache # NoEntry /\ list_cache[1].age < TTL_STOCK_LIST
            THEN /\ trace' = Append(trace, Call(LIST_FN, "", TRUE))
                 /\ stock_list_from_api' = list_cache[1].value
                 /\ list_cache' = list_cache
                 /\ data_cache' = data_cache
            ELSE /\ Len(trace') = Len(trace) + 2
                 /\ trace'[Len(trace')].op = "GET"
                 /\ trace'[Len(trace')].fn = LIST_URL
                 /\ list_cache' = Entry(stock_list_from_api', 0)
                 /\ data_cache' = data_cache
       /\ (pc = "target" /\ IsSet(session_state, "target_code")) =>
            IF /\ data_cache[TargetCode] # NoEntry
               /\ data_cache[TargetCode][1].age < TTL_STOCK_DATA
            THEN /\ trace' = Append(trace, Call(DATA_FN, TargetCode, TRUE))
                 /\ data' = data_cache[TargetCode][1].value
                 /\ data_cache' = data_cache
                 /\ list_cache' = list_cache
            ELSE /\ Len(trace') = Len(trace) + 2
                 /\ trace'[Len(trace')] \in
                        {Get(DATA_URL, TargetCode, ok) : ok \in BOOLEAN}
                 /\ \A c \in Codes \ {TargetCode} : data_cache'[c] = data_cache[c]
                 /\ pc' = "render" => data_cache'[TargetCode] = Entry(data', 0)
                 /\ list_cache' = list_cache
      ]_vars

\* a run both of whose calls were answered by entries stored earlier, while
\* the entry of the other code has expired
C2_Witness ==
    /\ pc = "render"
    /\ trace = <<Call(LIST_FN, "", TRUE), Call(DATA_FN, "c1", TRUE)>>
    /\ list_cache[1].age > TTL_STOCK_DATA
    /\ data_cache["c1"][1].age > 0
    /\ data_cache["c2"] # NoEntry
    /\ data_cache["c2"][1].age = TTL_STOCK_DATA

\* C7: a run issues at most one request to each endpoint; whatever it does for
\* a stock comes after the call for the stock list has returned; and a
\* per-stock request is issued only with a non-empty stock list and for the
\* target code that is set.
C7_SequentialNoRetry ==
    /\ Cardinality(Requests(LIST_URL)) <= 1
    /\ Cardinality(Requests(DATA_URL)) <= 1
    /\ Cardinality(Calls(LIST_FN)) <= 1
    /\ Cardinality(Calls(DATA_FN)) <= 1
    /\ \A j \in Calls(DATA_FN) \cup Requests(DATA_URL) :
          /\ \E i \in Calls(LIST_FN) : i < j
          /\ \A i \in Requests(LIST_URL) : i < j
          /\ stock_list_from_api # None
          /\ Len(stock_list_from_api[1]) > 0
          /\ IsSet(session_state, "target_code")
          /\ trace[j].arg = TargetCode

\* a finished run that issued both requests, the second of which failed
C7_Witness ==
    /\ pc = "done"
    /\ Len(trace) = 4
    /\ Requests(LIST_URL) = {2}
    /\ Requests(DATA_URL) = {4}
    /\ ~trace[4].flag

\* the stocks of the list fetched in this run
Listed == stock_list_from_api[1]

Named(keyword) == {i \in 1..Len(Listed) : Listed[i].name = keyword}

Containing(keyword) == {i \in 1..Len(Listed) : Contains(keyword, Listed[i].name)}

\* d is exactly the code-to-name dict of the stocks at the positions in at
IsMapOf(d, at) ==
    /\ {d[i] : i \in 1..Len(d)} = {<<Listed[j].code, Listed[j].name>> : j \in at}
    /\ Cardinality({d[i][1] : i \in 1..Len(d)}) = Len(d)

\* C8: a submit with a non-empty keyword sets target_code to the code of the
\* first stock named by the keyword and clears the candidates; failing that,
\* it clears target_code and makes the candidates the dict of all stocks whose
\* name contains the keyword; failing that, it clears both and shows the
\* not-found error. A click on a candidate sets target_code to its code,
\* clears the candidates and starts the script again, and a run that reaches
\* line 129 with a target code calls fetch_data_from_api for it and, given a
\* non-empty table, draws the chart of each oscillator column under that code.
C8_SearchResolution ==
    [][/\ (pc = "form" /\ event.type = "submit" /\ event.keyword # <<>>) =>
            IF Named(event.keyword) # {}
            THEN /\ \E i \in Named(event.keyword) :
                        /\ \A j \in Named(event.keyword) : i <= j
                        /\ session_state'["target_code"] = Some(Listed[i].code)
                 /\ session_state'["similar_stocks"] = None
            ELSE IF Containing(event.keyword) # {}
            THEN /\ session_state'["target_code"] = None
                 /\ session_state'["similar_stocks"] # None
                 /\ IsMapOf(session_state'["similar_stocks"][1],
                            Containing(event.keyword))
            ELSE /\ session_state'["target_code"] = None
                 /\ session_state'["similar_stocks"] = None
                 /\ ui'[Len(ui')].kind = "error"
                 /\ ui'[Len(ui')].arg = "not_found"
       /\ (pc = "buttons" /\ event.type = "click"
             /\ IsSet(session_state, "similar_stocks")
             /\ \E i \in 1..Len(session_state["similar_stocks"][1]) :
                    session_state["similar_stocks"][1][i] = event.button) =>
            /\ session_state'["target_code"] = Some(event.button[1])
            /\ session_state'["similar_stocks"] = None
            /\ pc' = "rerun"
       /\ pc = "rerun" =>
            /\ pc' = "fetch_list"
            /\ event' = NoEvent
            /\ session_state' = session_state
       /\ (pc = "target" /\ IsSet(session_state, "target_code")) =>
            /\ Len(trace') > Len(trace)
            /\ trace'[Len(trace) + 1].op = "call"
            /\ trace'[Len(trace) + 1].fn = DATA_FN
            /\ trace'[Len(trace) + 1].arg = TargetCode
       /\ (pc = "render" /\ data # None /\ ~Empty(data[1])) =>
            \A c \in DOMAIN data[1].columns \cap {OSC_ACC, OSC_INACC} :
                \E i \in (Len(ui) + 1)..Len(ui') :
                    /\ ui'[i].kind = "pyplot"
                    /\ ui'[i].arg.title[3] = TargetCode
                    /\ ui'[i].arg.plots[2] = <<"ax2", c>>
      ]_vars

\* the keyword names the second stock of the list while the name of the first
\* contains it: the second is the target and there are no candidates
C8_Witness ==
    /\ pc = "buttons"
    /\ event = Submit(<<"a", "b">>)
    /\ stock_list_from_api = Some(StockList2)
    /\ session_state["target_code"] = Some("c1")
    /\ session_state["similar_stocks"] = None

\* C9: target_code and similar_stocks are never both set, a run never shows
\* the candidates prompt and a chart together, and a run that has no submit
\* with a keyword and no click leaves the session state as it was.
C9_TargetAndCandidatesExclusive ==
    /\ [](/\ ~(IsSet(session_state, "target_code")
                 /\ IsSet(session_state, "similar_stocks"))
          /\ ~(Shown("warning") /\ Shown("pyplot")))
    /\ [][(event.type = "none" \/ (event.type = "submit" /\ event.keyword = <<>>))
             => session_state' = session_state]_vars

\* a submit that found candidates only, in a session that has fetched the
\* series of a stock before: the run ends with the prompt on screen and no target
C9_Witness ==
    /\ pc = "done"
    /\ event.type = "submit"
    /\ data_cache["c1"] # NoEntry
    /\ IsSet(session_state, "similar_stocks")
    /\ session_state["target_code"] = None
    /\ Shown("warning")

\* the value the entry of the cache holds is None
HoldsNone(entry) == entry # NoEntry /\ entry[1].value = None

\* C10: a failed request leaves an entry holding None; a call answered by
\* such an entry issues no request and returns None, so that the run shows
\* no form (stock list) or no table and no chart (stock code).
C10_FailureIsMemoized ==
    /\ Failed(LIST_URL) => list_cache = Entry(None, 0)
    /\ Failed(DATA_URL) => data_cache[TargetCode] = Entry(None, 0)
    /\ (\E i \in Calls(LIST_FN) : trace[i].flag /\ HoldsNone(list_cache)) =>
          /\ Requests(LIST_URL) = {}
          /\ stock_list_from_api = None
          /\ ~Shown("form")
          /\ pc \in {"else", "done"}
    /\ (\E i \in Calls(DATA_FN) : trace[i].flag /\ HoldsNone(data_cache[TargetCode])) =>
          /\ Requests(DATA_URL) = {}
          /\ data = None
          /\ ~Shown("table") /\ ~Shown("pyplot")

\* a finished run that was answered None for its stock by an entry 300 s old
C10_Witness ==
    /\ pc = "done"
    /\ \E i \in Calls(DATA_FN) : trace[i].flag
    /\ HoldsNone(data_cache[TargetCode])
    /\ data_cache[TargetCode][1].age > 0
    /\ data_cache[TargetCode][1].age < TTL_STOCK_DATA
    /\ Shown("form")

====
